---- MODULE Spec2Model ----
(***************************************************************************)
(* A model of react-i18n-query: the namespace utilities                    *)
(* (processNamespace, isQueryMatch, createNsWithQuery, processNamespaces)  *)
(* and NamespaceQueryHttpBackend.read, in both versions the repository     *)
(* holds.                                                                  *)
(*                                                                         *)
(* A JavaScript string is a sequence of characters, each a one-character   *)
(* TLA+ string.  An object used as a Record<string,string> is the sequence *)
(* of its <<key, value>> entries in property order, with distinct keys.    *)
(* `undefined` (an absent property, a lookup that found nothing) is None.  *)
(***************************************************************************)
EXTENDS Integers, Sequences, FiniteSets, TLC

VARIABLES
  enc,        \* the last processNamespace call: its descriptor and its tokens
  dec,        \* the last splitNamespace call on one of those tokens
  match,      \* the last isQueryMatch call
  reg,        \* the object createNsWithQuery / processNamespaces returned
  lookup,     \* the last getNsById / getNs call on that object
  backend,    \* NamespaceQueryHttpBackend: its version and this.options.loadPath
  pc,         \* read(): "idle", "awaiting" (suspended at the await), "done"
  req,        \* read(): lng, ns, and what splitNamespace gave
  pending,    \* read(): the settled state of the promise it awaits
  cbCalls,    \* read(): the callback invocations read itself made, in order
  loadUrlCalls, \* read(): the URLs handed to super.loadUrl with the callback
  parentReads,  \* read(): the calls delegated to super.read
  promise,    \* read(): the state of the promise read returned
  hookVersion, \* useLanguageSync: which of its two versions is mounted
  autoChange, \* useLanguageSync: the autoChange option of the last render
  deps,       \* useLanguageSync: identity of i18nInstance, cookieKey, getCookieValue, onError
  cookie,     \* what getCookieValue(cookieKey) returns now
  changes,    \* how often the cookie or the options changed since the mount
  language,   \* i18nInstance.language
  calls,      \* the i18nInstance.changeLanguage calls made, in order
  currentLang, \* useLanguageSync: the state value
  returned,   \* useLanguageSync: the value the last render returned
  hpc,        \* useLanguageSync: "unmounted", "rendered" (effect to run), "idle"
  onErrorCalls \* useLanguageSync: the number of onError calls

vars == <<enc, dec, match, reg, lookup, backend, pc, req, pending, cbCalls,
          loadUrlCalls, parentReads, promise, hookVersion, autoChange, deps, cookie,
          changes, language, calls, currentLang, returned, hpc, onErrorCalls>>

codecVars == <<enc, dec, match>>
nsVars == <<reg, lookup>>
backendVars == <<backend, pc, req, pending, cbCalls, loadUrlCalls, parentReads,
                 promise>>
hookVars == <<hookVersion, autoChange, deps, cookie, changes, language, calls,
              currentLang, returned, hpc, onErrorCalls>>

-----------------------------------------------------------------------------
(* Bounds of the model. *)

MaxStrLen == 1        \* characters in a query key or value (codec)
MaxPairs == 2         \* entries in a query object
MaxNames == 2         \* elements in an array-valued namespace (codec)
MaxDescriptors == 2   \* descriptors in the array handed to the entry function
MaxSeps == 2          \* "$" characters in a namespace handed to read
MaxChanges == 2        \* changes of the cookie or the options after the mount

-----------------------------------------------------------------------------
(* Strings. *)

SeqsUpTo(S, n) == UNION {[1..k -> S] : k \in 0..n}

\* String.prototype.indexOf for a one-character pattern, 1-based; 0 for -1.
IndexOf(s, c) ==
  IF \E i \in 1..Len(s) : s[i] = c
    THEN CHOOSE i \in 1..Len(s) : s[i] = c /\ \A j \in 1..(i - 1) : s[j] # c
    ELSE 0

Includes(s, c) == \E i \in 1..Len(s) : s[i] = c

Count(s, c) == Cardinality({i \in 1..Len(s) : s[i] = c})

\* s.substring(i) with i the 0-based index after the 1-based position p.
After(s, p) == SubSeq(s, p + 1, Len(s))
Before(s, p) == SubSeq(s, 1, p - 1)

StartsWith(s, pre) == Len(s) >= Len(pre) /\ SubSeq(s, 1, Len(pre)) = pre

\* String.prototype.indexOf for a string pattern, 1-based; 0 for -1.
IndexOfStr(s, pat) ==
  LET hits == {i \in 1..(Len(s) - Len(pat) + 1) : SubSeq(s, i, i + Len(pat) - 1) = pat}
  IN IF hits = {} THEN 0 ELSE CHOOSE i \in hits : \A j \in hits : i <= j

\* String.prototype.split(c): the pieces between the occurrences of c.
RECURSIVE SplitOn(_, _)
SplitOn(s, c) ==
  IF IndexOf(s, c) = 0 THEN <<s>>
  ELSE <<Before(s, IndexOf(s, c))>> \o SplitOn(After(s, IndexOf(s, c)), c)

\* Array.prototype.flat on an array of arrays (also string concatenation).
RECURSIVE Flat(_)
Flat(ss) == IF ss = <<>> THEN <<>> ELSE Head(ss) \o Flat(Tail(ss))

\* Array.prototype.join(sep).
RECURSIVE Join(_, _)
Join(ss, sep) ==
  IF ss = <<>> THEN <<>>
  ELSE IF Len(ss) = 1 THEN ss[1]
  ELSE ss[1] \o sep \o Join(Tail(ss), sep)

Digits == <<"0", "1", "2", "3", "4", "5", "6", "7", "8", "9">>

\* `${index}`: the decimal string of a non-negative integer.
RECURSIVE DecStr(_)
DecStr(n) ==
  IF n < 10 THEN <<Digits[n + 1]>>
  ELSE DecStr(n \div 10) \o <<Digits[(n % 10) + 1]>>

-----------------------------------------------------------------------------
(* application/x-www-form-urlencoded, as URLSearchParams implements it. *)

\* The characters of the model with their ASCII codes.
AsciiTable ==
  { <<" ", 32>>, <<"#", 35>>, <<"$", 36>>, <<"%", 37>>, <<"&", 38>>,
    <<"*", 42>>, <<"+", 43>>, <<"-", 45>>, <<".", 46>>, <<"/", 47>>,
    <<"0", 48>>, <<"1", 49>>, <<"2", 50>>, <<"3", 51>>, <<"4", 52>>,
    <<"5", 53>>, <<"6", 54>>, <<"7", 55>>, <<"8", 56>>, <<"9", 57>>,
    <<":", 58>>, <<"=", 61>>, <<"?", 63>>,
    <<"A", 65>>, <<"B", 66>>, <<"C", 67>>, <<"D", 68>>, <<"E", 69>>,
    <<"F", 70>>, <<"_", 95>>,
    <<"a", 97>>, <<"b", 98>>, <<"c", 99>>, <<"d", 100>>, <<"e", 101>>,
    <<"f", 102>>, <<"j", 106>>, <<"k", 107>>, <<"l", 108>>, <<"n", 110>>,
    <<"s", 115>>, <<"v", 118>>, <<"w", 119>>, <<"x", 120>>,
    <<"{", 123>>, <<"|", 124>>, <<"}", 125>> }

Code(c) == (CHOOSE p \in AsciiTable : p[1] = c)[2]

\* The character of a byte; a byte outside the table is named by its number.
Chr(n) ==
  IF \E p \in AsciiTable : p[2] = n
    THEN (CHOOSE p \in AsciiTable : p[2] = n)[1]
    ELSE "\\x" \o ToString(n)

HexDigits == <<"0", "1", "2", "3", "4", "5", "6", "7", "8", "9",
               "A", "B", "C", "D", "E", "F">>
LowerHex == <<"a", "b", "c", "d", "e", "f">>

IsHex(c) == (\E i \in 1..16 : HexDigits[i] = c) \/ (\E i \in 1..6 : LowerHex[i] = c)

HexVal(c) ==
  IF \E i \in 1..16 : HexDigits[i] = c
    THEN (CHOOSE i \in 1..16 : HexDigits[i] = c) - 1
    ELSE (CHOOSE i \in 1..6 : LowerHex[i] = c) + 9

\* Percent-encoding of one byte: "%" and two upper-case hex digits.
PctEncode(c) == <<"%", HexDigits[(Code(c) \div 16) + 1], HexDigits[(Code(c) % 16) + 1]>>

\* The bytes the urlencoded serializer leaves as they are: ASCII alphanumerics
\* and * - . _
FormSafe(c) ==
  \/ Code(c) \in 48..57
  \/ Code(c) \in 65..90
  \/ Code(c) \in 97..122
  \/ c \in {"*", "-", ".", "_"}

\* The urlencoded byte serializer: a space becomes "+".
FormEncodeChar(c) ==
  IF c = " " THEN <<"+">>
  ELSE IF FormSafe(c) THEN <<c>>
  ELSE PctEncode(c)

FormEncode(s) == Flat([i \in 1..Len(s) |-> FormEncodeChar(s[i])])

\* URLSearchParams.prototype.toString of a list of name/value pairs.
URLSearchParamsToString(list) ==
  Join([i \in 1..Len(list) |-> FormEncode(list[i][1]) \o <<"=">> \o FormEncode(list[i][2])],
       <<"&">>)

\* Percent-decoding: "%" and two hex digits give a byte, anything else stays.
RECURSIVE PercentDecode(_)
PercentDecode(s) ==
  IF s = <<>> THEN <<>>
  ELSE IF s[1] = "%" /\ Len(s) >= 3 /\ IsHex(s[2]) /\ IsHex(s[3])
    THEN <<Chr(16 * HexVal(s[2]) + HexVal(s[3]))>> \o PercentDecode(SubSeq(s, 4, Len(s)))
  ELSE <<s[1]>> \o PercentDecode(Tail(s))

PlusToSpace(s) == [i \in 1..Len(s) |-> IF s[i] = "+" THEN " " ELSE s[i]]

\* One "name=value" piece of a query string: split at the first "=".
ParsePiece(piece) ==
  LET eq == IndexOf(piece, "=")
      name == IF eq = 0 THEN piece ELSE Before(piece, eq)
      value == IF eq = 0 THEN <<>> ELSE After(piece, eq)
  IN <<PercentDecode(PlusToSpace(name)), PercentDecode(PlusToSpace(value))>>

\* The urlencoded parser: pieces between "&", empty pieces skipped.
RECURSIVE ParsePieces(_)
ParsePieces(pieces) ==
  IF pieces = <<>> THEN <<>>
  ELSE IF Head(pieces) = <<>> THEN ParsePieces(Tail(pieces))
  ELSE <<ParsePiece(Head(pieces))>> \o ParsePieces(Tail(pieces))

ParseUrlencoded(s) == ParsePieces(SplitOn(s, "&"))

\* new URLSearchParams(init) for a string: one leading "?" is dropped.
URLSearchParamsOfString(s) ==
  ParseUrlencoded(IF s # <<>> /\ s[1] = "?" THEN Tail(s) ELSE s)

\* new URLSearchParams(init) for a record: its entries in property order.
URLSearchParamsOfRecord(query) == query

-----------------------------------------------------------------------------
(* Optional values: `undefined` or absent is None. *)

None == [some |-> FALSE]
Some(x) == [some |-> TRUE, val |-> x]

\* query[key] on a Record<string,string>: the value, or undefined.
Prop(query, key) ==
  IF \E i \in 1..Len(query) : query[i][1] = key
    THEN Some(query[CHOOSE i \in 1..Len(query) : query[i][1] = key][2])
    ELSE None

\* Object.keys(query), in property order.
Keys(query) == [i \in 1..Len(query) |-> query[i][1]]

\* A parameter default `query = {}`.
OrEmpty(oq) == IF oq.some THEN oq.val ELSE <<>>

\* A namespace is a string, or an array object (ref names the object: two arrays
\* are === only when they are the same object).
Str(s) == [kind |-> "string", ref |-> 0, str |-> s, items |-> <<>>]
Arr(r, ss) == [kind |-> "array", ref |-> r, str |-> <<>>, items |-> ss]

\* a === b on namespaces.
StrictEq(a, b) ==
  IF a.kind = "string" /\ b.kind = "string" THEN a.str = b.str
  ELSE a.kind = "array" /\ b.kind = "array" /\ a.ref = b.ref

-----------------------------------------------------------------------------
(* The namespace utilities. *)

\* A processNamespace that joins the raw keys and values, without URL encoding.
processNamespaceRaw(d) ==
  LET query == OrEmpty(d.query)
      queryString == Join([i \in 1..Len(query) |-> query[i][1] \o <<"=">> \o query[i][2]],
                          <<"&">>)
      suffix == IF queryString # <<>> THEN <<"$">> \o queryString ELSE <<>>
  IN IF d.namespace.kind = "array"
       THEN [i \in 1..Len(d.namespace.items) |-> d.namespace.items[i] \o suffix]
       ELSE <<d.namespace.str \o suffix>>

\* A processNamespace that appends the separator whatever the query string is.
processNamespaceAlways(d) ==
  LET queryString == URLSearchParamsToString(URLSearchParamsOfRecord(OrEmpty(d.query)))
      suffix == <<"$">> \o queryString
  IN IF d.namespace.kind = "array"
       THEN [i \in 1..Len(d.namespace.items) |-> d.namespace.items[i] \o suffix]
       ELSE <<d.namespace.str \o suffix>>

\* processNamespace as createNsWithQuery uses it: one token per base name.
processNamespace(d) ==
  LET queryString == URLSearchParamsToString(URLSearchParamsOfRecord(OrEmpty(d.query)))
      suffix == IF queryString # <<>> THEN <<"$">> \o queryString ELSE <<>>
  IN IF d.namespace.kind = "array"
       THEN [i \in 1..Len(d.namespace.items) |-> d.namespace.items[i] \o suffix]
       ELSE <<d.namespace.str \o suffix>>

\* processNamespace as processNamespaces uses it: a string namespace, one token.
processNamespaceStr(d) ==
  LET queryString == URLSearchParamsToString(URLSearchParamsOfRecord(OrEmpty(d.query)))
  IN IF queryString # <<>> THEN d.namespace.str \o <<"$">> \o queryString
     ELSE d.namespace.str

\* An isQueryMatch without the key-count check: a subset would pass.
isQueryMatchNoCount(oq1, oq2, sameRef) ==
  LET query1 == OrEmpty(oq1)
      query2 == OrEmpty(oq2)
      keys1 == Keys(query1)
  IN IF sameRef THEN TRUE
     ELSE \A i \in 1..Len(keys1) : Prop(query1, keys1[i]) = Prop(query2, keys1[i])

\* isQueryMatch of createNsWithQuery. sameRef: the two arguments are one object.
isQueryMatch(oq1, oq2, sameRef) ==
  LET query1 == OrEmpty(oq1)
      query2 == OrEmpty(oq2)
      keys1 == Keys(query1)
      keys2 == Keys(query2)
  IN IF sameRef THEN TRUE
     ELSE IF Len(keys1) # Len(keys2) THEN FALSE
     ELSE \A i \in 1..Len(keys1) : Prop(query1, keys1[i]) = Prop(query2, keys1[i])

\* isQueryMatch of processNamespaces: no identity shortcut.
isQueryMatchEvery(oq1, oq2, sameRef) ==
  LET query1 == OrEmpty(oq1)
      query2 == OrEmpty(oq2)
      keys1 == Keys(query1)
      keys2 == Keys(query2)
  IN IF Len(keys1) # Len(keys2) THEN FALSE
     ELSE \A i \in 1..Len(keys1) : Prop(query1, keys1[i]) = Prop(query2, keys1[i])

-----------------------------------------------------------------------------
(* NamespaceQueryHttpBackend: splitting a namespace. *)

\* splitNamespace with indexOf: the base name and the parsed remainder.
splitNamespace(ns) ==
  LET indexOfSeparator == IndexOf(ns, "$")
  IN IF indexOfSeparator = 0
       THEN [baseNamespace |-> ns, queryParams |-> None]
       ELSE [baseNamespace |-> Before(ns, indexOfSeparator),
             queryParams |-> Some(URLSearchParamsOfString(After(ns, indexOfSeparator)))]

\* splitNamespace with split('$'): the first two pieces, the second as a string.
splitNamespacePlugin(ns) ==
  LET pieces == SplitOn(ns, "$")
  IN [baseNamespace |-> pieces[1],
      queryParams |-> IF Len(pieces) >= 2 THEN pieces[2] ELSE <<>>]

\* The name/value pairs the backend works with after splitting ns.
SplitPairs(bv, ns) ==
  IF bv = "indexOf"
    THEN OrEmpty(splitNamespace(ns).queryParams)
    ELSE IF splitNamespacePlugin(ns).queryParams # <<>>
      THEN URLSearchParamsOfString(splitNamespacePlugin(ns).queryParams)
      ELSE <<>>

SplitBase(bv, ns) ==
  IF bv = "indexOf" THEN splitNamespace(ns).baseNamespace
  ELSE splitNamespacePlugin(ns).baseNamespace

BackendVariants == {"indexOf", "split"}

-----------------------------------------------------------------------------
(* Inputs of the codec specification. *)

Chars == {"a", "$", "&", "=", "%", "+", " "}
NameChars == {"a", "$"}

CodecStrs == SeqsUpTo(Chars, MaxStrLen)
CodecNames == SeqsUpTo(NameChars, MaxStrLen)

DistinctKeys(q) == \A i, j \in 1..Len(q) : q[i][1] = q[j][1] => i = j

QueriesOver(ks, vs) == {q \in SeqsUpTo(ks \X vs, MaxPairs) : DistinctKeys(q)}

CodecQueries == {None} \cup {Some(q) : q \in QueriesOver(CodecStrs, CodecStrs)}

CodecNamespaces ==
  {Str(s) : s \in CodecNames} \cup {Arr(1, ss) : ss \in SeqsUpTo(CodecNames, MaxNames)}

MatchKeys == {<<"k">>, <<"j">>, <<"x">>}
MatchVals == {<<"v">>, <<"w">>}
MatchQueries == {None} \cup {Some(q) : q \in QueriesOver(MatchKeys, MatchVals)}

NoCall == [op |-> "none"]

\* One behaviour is one call: the arguments are drawn first, then the utility
\* is applied to them.
CodecInit ==
  \/ /\ \E ns \in CodecNamespaces, q \in CodecQueries, src \in {"create", "process"} :
          /\ src = "process" => ns.kind = "string"
          /\ enc = [op |-> "args", src |-> src,
                    d |-> [id |-> None, namespace |-> ns, query |-> q]]
     /\ dec = NoCall
     /\ match = NoCall
  \/ /\ \E q1 \in MatchQueries, q2 \in MatchQueries, sameRef \in BOOLEAN,
          src \in {"create", "process"} :
          /\ sameRef => q1.some /\ q1 = q2
          /\ match = [op |-> "args", src |-> src, query1 |-> q1, query2 |-> q2,
                      sameRef |-> sameRef]
     /\ enc = NoCall
     /\ dec = NoCall

\* processNamespace(d), by either utility.
ProcessNamespaceCall ==
  /\ enc.op = "args"
  /\ enc' = [op |-> "processNamespace", src |-> enc.src, d |-> enc.d,
             tokens |-> IF enc.src = "create" THEN processNamespace(enc.d)
                        ELSE <<processNamespaceStr(enc.d)>>]
  /\ UNCHANGED <<dec, match, nsVars, backendVars, hookVars>>

\* The backend splits one of the tokens just produced and parses its query.
SplitNamespaceCall ==
  \E bv \in BackendVariants :
    /\ enc.op = "processNamespace"
    /\ dec = NoCall
    /\ \E i \in 1..Len(enc.tokens) :
         dec' = [op |-> "splitNamespace", bv |-> bv, index |-> i,
                 token |-> enc.tokens[i],
                 baseNamespace |-> SplitBase(bv, enc.tokens[i]),
                 pairs |-> SplitPairs(bv, enc.tokens[i])]
    /\ UNCHANGED <<enc, match, nsVars, backendVars, hookVars>>

\* isQueryMatch(query1, query2), by either utility.
IsQueryMatchCall ==
  /\ match.op = "args"
  /\ match' = [op |-> "isQueryMatch", src |-> match.src, query1 |-> match.query1,
               query2 |-> match.query2, sameRef |-> match.sameRef,
               result |-> IF match.src = "create"
                            THEN isQueryMatch(match.query1, match.query2, match.sameRef)
                            ELSE isQueryMatchEvery(match.query1, match.query2, match.sameRef)]
  /\ UNCHANGED <<enc, dec, nsVars, backendVars, hookVars>>

CodecNext == ProcessNamespaceCall \/ SplitNamespaceCall \/ IsQueryMatchCall

-----------------------------------------------------------------------------
(* The entry functions: createNsWithQuery and processNamespaces. *)

\* A set that keeps the value an existing key already has.
MapSetKeepFirst(m, key, value) ==
  IF \E i \in 1..Len(m) : m[i][1] = key THEN m ELSE Append(m, <<key, value>>)

\* Map.prototype.set on a Map kept as the sequence of its <<key, value>>
\* entries in insertion order: an existing key keeps its place.
MapSet(m, key, value) ==
  IF \E i \in 1..Len(m) : m[i][1] = key
    THEN [i \in 1..Len(m) |-> IF m[i][1] = key THEN <<key, value>> ELSE m[i]]
    ELSE Append(m, <<key, value>>)

\* Map.prototype.get.
MapGet(m, key) ==
  IF \E i \in 1..Len(m) : m[i][1] = key
    THEN Some(m[CHOOSE i \in 1..Len(m) : m[i][1] = key][2])
    ELSE None

\* Array.from(map.values()).
MapValues(m) == [i \in 1..Len(m) |-> m[i][2]]

\* A key that is always the position, whatever the id.
KeyOfIndexOnly(item, index) == DecStr(index)

\* A key that counts positions from one.
KeyOfOneBased(item, index) ==
  IF item.id.some /\ item.id.val # <<>> THEN item.id.val ELSE DecStr(index + 1)

\* item.id || `${index}`: an absent or empty id falls back to the position.
KeyOf(item, index) ==
  IF item.id.some /\ item.id.val # <<>> THEN item.id.val ELSE DecStr(index)

\* A normalization that drops a single descriptor.
NormalizeDrop(input) == IF input.isArray THEN input.value ELSE <<>>

\* The argument of an entry function: an array of descriptors (value is the
\* array), or one descriptor (value holds it alone, and Single is the descriptor).
Single(input) == input.value[1]

\* Array.isArray(ns) ? ns : [ns]
Normalize(input) == IF input.isArray THEN input.value ELSE <<Single(input)>>

\* The loop of createNsWithQuery: namespaceMap.set(key, processNamespace(item)).
RECURSIVE FillMap(_, _, _)
FillMap(namespaceArray, i, m) ==
  IF i > Len(namespaceArray) THEN m
  ELSE FillMap(namespaceArray, i + 1,
               MapSet(m, KeyOf(namespaceArray[i], i - 1), processNamespace(namespaceArray[i])))

\* The forEach of processNamespaces: one token string per key.
RECURSIVE FillMapStr(_, _, _)
FillMapStr(ns, i, m) ==
  IF i > Len(ns) THEN m
  ELSE FillMapStr(ns, i + 1, MapSet(m, KeyOf(ns[i], i - 1), processNamespaceStr(ns[i])))

\* What createNsWithQuery(input) returns: ns, and what its two closures hold.
createNsWithQuery(input) ==
  LET namespaceArray == Normalize(input)
      namespaceMap == FillMap(namespaceArray, 1, <<>>)
      flattenedNs == Flat(MapValues(namespaceMap))
      nsByIdCache == [i \in 1..Len(namespaceMap) |->
                        <<namespaceMap[i][1], Join(namespaceMap[i][2], <<"|">>)>>]
  IN [op |-> "createNsWithQuery", input |-> input, noop |-> FALSE,
      namespaceArray |-> namespaceArray,
      ns |-> [kind |-> "array", tokens |-> flattenedNs],
      byId |-> nsByIdCache]

\* What processNamespaces(input) returns: for a single descriptor a bare string
\* and two helpers that return undefined.
processNamespaces(input) ==
  IF ~input.isArray
    THEN [op |-> "processNamespaces", input |-> input, noop |-> TRUE,
          namespaceArray |-> <<>>,
          ns |-> [kind |-> "string", tokens |-> <<processNamespaceStr(Single(input))>>],
          byId |-> <<>>]
    ELSE LET namespaceMap == FillMapStr(input.value, 1, <<>>)
         IN [op |-> "processNamespaces", input |-> input, noop |-> FALSE,
             namespaceArray |-> input.value,
             ns |-> [kind |-> "array", tokens |-> MapValues(namespaceMap)],
             byId |-> namespaceMap]

\* getNsById of the returned object.
getNsById(r, id) == IF r.noop THEN None ELSE MapGet(r.byId, id)

\* The item a search selects: item.namespace === namespace && isQueryMatch(...).
\* queryOf: the position of the descriptor whose query object the caller passed
\* as the search query (0: an object of its own).
Selects(r, item, i, search) ==
  /\ StrictEq(item.namespace, search.namespace)
  /\ IF r.op = "createNsWithQuery"
       THEN isQueryMatch(item.query, search.query, search.queryOf = i)
       ELSE isQueryMatchEvery(item.query, search.query, search.queryOf = i)

\* A find that returns the last item selected.
FindLast(r, search) ==
  LET hits == {i \in 1..Len(r.namespaceArray) : Selects(r, r.namespaceArray[i], i, search)}
  IN IF hits = {} THEN 0 ELSE CHOOSE i \in hits : \A j \in hits : j <= i

\* Array.prototype.find: the position of the first item selected, 0 for none.
Find(r, search) ==
  LET hits == {i \in 1..Len(r.namespaceArray) : Selects(r, r.namespaceArray[i], i, search)}
  IN IF hits = {} THEN 0 ELSE CHOOSE i \in hits : \A j \in hits : i <= j

\* getNs of the returned object.
getNs(r, search) ==
  IF r.noop \/ Find(r, search) = 0 THEN None
  ELSE IF r.op = "createNsWithQuery"
    THEN Some(Join(processNamespace(r.namespaceArray[Find(r, search)]), <<"|">>))
    ELSE Some(processNamespaceStr(r.namespaceArray[Find(r, search)]))

-----------------------------------------------------------------------------
(* Inputs of the registry specification. *)

NsA == <<"a">>
NsB == <<"b">>
QK == <<"k">>
QJ == <<"j">>
QV == <<"v">>

Ids == {None, Some(<<>>), Some(<<"x">>), Some(<<"0">>), Some(<<"1">>)}

\* Two array objects with the same elements: only one is used in descriptors.
DescriptorNamespaces == {Str(NsA), Str(NsB), Arr(1, <<NsA, NsB>>)}
SearchNamespaces == DescriptorNamespaces \cup {Arr(2, <<NsA, NsB>>)}

RegQueries == {None} \cup {Some(q) : q \in QueriesOver({QK, QJ}, {QV}) \ {<<<<QJ, QV>>>>}}

Descriptors == [id : Ids, namespace : DescriptorNamespaces, query : RegQueries]
StrDescriptors == {d \in Descriptors : d.namespace.kind = "string"}

InputsOf(ds) ==
  {[isArray |-> TRUE, value |-> v] : v \in SeqsUpTo(ds, MaxDescriptors)}
    \cup {[isArray |-> FALSE, value |-> <<d>>] : d \in ds}

LookupKeys == {<<>>, <<"x">>} \cup {DecStr(i) : i \in 0..MaxDescriptors}

\* One behaviour is one call of an entry function, then one lookup.
RegInit ==
  /\ \/ \E input \in InputsOf(Descriptors) :
          reg = [op |-> "args", fn |-> "createNsWithQuery", input |-> input]
     \/ \E input \in InputsOf(StrDescriptors) :
          reg = [op |-> "args", fn |-> "processNamespaces", input |-> input]
  /\ lookup = NoCall

CreateNsWithQueryCall ==
  /\ reg.op = "args"
  /\ reg.fn = "createNsWithQuery"
  /\ reg' = createNsWithQuery(reg.input)
  /\ UNCHANGED <<lookup, codecVars, backendVars, hookVars>>

ProcessNamespacesCall ==
  /\ reg.op = "args"
  /\ reg.fn = "processNamespaces"
  /\ reg' = processNamespaces(reg.input)
  /\ UNCHANGED <<lookup, codecVars, backendVars, hookVars>>

Built == reg.op \in {"createNsWithQuery", "processNamespaces"}

GetNsByIdCall ==
  /\ Built
  /\ lookup = NoCall
  /\ \E id \in LookupKeys :
       lookup' = [op |-> "getNsById", id |-> id, result |-> getNsById(reg, id)]
  /\ UNCHANGED <<reg, codecVars, backendVars, hookVars>>

GetNsCall ==
  /\ Built
  /\ lookup = NoCall
  /\ \E ns \in SearchNamespaces, q \in RegQueries,
        queryOf \in 0..Len(Normalize(reg.input)) :
       LET search == [namespace |-> ns, query |-> q, queryOf |-> queryOf]
       IN /\ queryOf > 0 => q.some /\ Normalize(reg.input)[queryOf].query = q
          /\ lookup' = [op |-> "getNs", search |-> search, result |-> getNs(reg, search)]
  /\ UNCHANGED <<reg, codecVars, backendVars, hookVars>>

NsNext == CreateNsWithQueryCall \/ ProcessNamespacesCall \/ GetNsByIdCall \/ GetNsCall

-----------------------------------------------------------------------------
(* URLs, as new URL(...) parses and serializes them.  The scheme and host are *)
(* the single element Origin; what follows is the path, the query after "?"   *)
(* and the fragment after "#".                                                *)

Origin == "http://h"

\* new URL(s) with no base: s must be absolute. The strings of the model are
\* the origin followed by a path, a query or a fragment, or relative references.
URLValid(s) ==
  /\ s # <<>>
  /\ s[1] = Origin
  /\ Len(s) >= 2 => s[2] \in {"/", "?", "#"}

\* Percent-encoding with one of the URL parser's encode sets.
UrlEncode(s, set) ==
  Flat([i \in 1..Len(s) |-> IF s[i] \in set THEN PctEncode(s[i]) ELSE <<s[i]>>])

PathEncodeSet == {" ", "#", "?", "{", "}"}
QueryEncodeSet == {" ", "#"}
FragmentEncodeSet == {" "}

\* The parsed URL: path, query and fragment (None when the URL has none).
ParseURL(s) ==
  LET rest == Tail(s)
      hash == IndexOf(rest, "#")
      beforeHash == IF hash = 0 THEN rest ELSE Before(rest, hash)
      qm == IndexOf(beforeHash, "?")
      rawPath == IF qm = 0 THEN beforeHash ELSE Before(beforeHash, qm)
  IN [path |-> IF rawPath = <<>> THEN <<"/">> ELSE UrlEncode(rawPath, PathEncodeSet),
      query |-> IF qm = 0 THEN None
                ELSE Some(UrlEncode(After(beforeHash, qm), QueryEncodeSet)),
      fragment |-> IF hash = 0 THEN None
                   ELSE Some(UrlEncode(After(rest, hash), FragmentEncodeSet))]

\* url.searchParams: the pairs of the URL's query.
SearchParams(u) == IF u.query.some THEN ParseUrlencoded(u.query.val) ELSE <<>>

\* url.searchParams.append for each pair: the query becomes the serialized list.
WithAppended(u, pairs) ==
  IF pairs = <<>> THEN u
  ELSE [u EXCEPT !.query =
          IF URLSearchParamsToString(SearchParams(u) \o pairs) = <<>> THEN None
          ELSE Some(URLSearchParamsToString(SearchParams(u) \o pairs))]

\* url.toString().
Href(u) ==
  <<Origin>> \o u.path
    \o (IF u.query.some THEN <<"?">> \o u.query.val ELSE <<>>)
    \o (IF u.fragment.some THEN <<"#">> \o u.fragment.val ELSE <<>>)

\* String.prototype.replace(pattern, replacement) for a string pattern: the first
\* occurrence only. The replacements of the model hold no "$" pattern.
ReplaceFirst(s, pat, rep) ==
  IF IndexOfStr(s, pat) = 0 THEN s
  ELSE SubSeq(s, 1, IndexOfStr(s, pat) - 1) \o rep
         \o SubSeq(s, IndexOfStr(s, pat) + Len(pat), Len(s))

PlaceholderNs == <<"{", "{", "n", "s", "}", "}">>
PlaceholderLng == <<"{", "{", "l", "n", "g", "}", "}">>

-----------------------------------------------------------------------------
(* NamespaceQueryHttpBackend.read, in its two versions: "indexOf" delegates  *)
(* a namespace without "$" to super.read and rejects an unknown loadPath     *)
(* type; "split" takes every namespace through the query path and resolves   *)
(* an unknown loadPath type to undefined.                                    *)

ErrNoLoadPath == "No loadPath defined for namespace"
ErrNoValidLoadPath == "No valid loadPath found."
ErrInvalidURL == "Invalid URL"
ErrLoadPathFn == "loadPath function failed"
ErrLoadUrl == "loadUrl threw"

Settled(outcome, value, error) == [outcome |-> outcome, value |-> value, error |-> error]

\* resolveLoadPath: what the call gives: a promise fulfilled with the path, a
\* rejected promise, or an exception thrown by the loadPath function.
resolveLoadPath(version, loadPath, lng, baseNamespace) ==
  IF loadPath.kind = "string"
    THEN Settled("fulfilled",
                 Some(ReplaceFirst(ReplaceFirst(loadPath.path, PlaceholderNs, baseNamespace),
                                   PlaceholderLng, lng)),
                 "")
  ELSE IF loadPath.kind = "function"
    THEN IF loadPath.does = "return" THEN Settled("fulfilled", loadPath.value, "")
         ELSE IF loadPath.does = "reject" THEN Settled("rejected", None, ErrLoadPathFn)
         ELSE Settled("throw", None, ErrLoadPathFn)
  ELSE IF version = "indexOf"
    THEN Settled("rejected", None, ErrNoValidLoadPath)
    ELSE Settled("fulfilled", None, "")

\* constructUrl: the URL string, or the TypeError of new URL.
constructUrl(loadPath, pairs) ==
  IF ~URLValid(loadPath) THEN [threw |-> TRUE, url |-> <<>>]
  ELSE [threw |-> FALSE, url |-> Href(WithAppended(ParseURL(loadPath), pairs))]

\* A catch block that swallows the error.
CatchSilent(error) == <<>>

\* catch (error) { callback(error as Error, false) }: the callback calls made.
Catch(error) == <<[err |-> error, data |-> FALSE]>>

\* The try block after the await, and the catch: the callback calls read makes
\* itself, and the URLs it hands to super.loadUrl with the callback.
AfterAwait(settled, pairs, loadUrlThrows) ==
  IF settled.outcome = "rejected"
    THEN [cb |-> Catch(settled.error), urls |-> <<>>]
  ELSE IF ~settled.value.some \/ settled.value.val = <<>>
    THEN [cb |-> <<[err |-> ErrNoLoadPath, data |-> FALSE]>>, urls |-> <<>>]
  ELSE IF constructUrl(settled.value.val, pairs).threw
    THEN [cb |-> Catch(ErrInvalidURL), urls |-> <<>>]
  ELSE [cb |-> IF loadUrlThrows THEN Catch(ErrLoadUrl) ELSE <<>>,
        urls |-> <<constructUrl(settled.value.val, pairs).url>>]

\* Inputs of the backend specification.
Lngs == {<<"e", "n">>}
ReadBases == {<<>>, <<"a">>}
Segments ==
  { <<>>,
    <<"k", "=", "v">>,
    <<"k", "=", "w", "&", "j", "=", "%", "2", "4">> }

\* A base followed by up to n "$"-separated segments.
RECURSIVE WithSegments(_, _)
WithSegments(prefixes, n) ==
  IF n = 0 THEN prefixes
  ELSE prefixes \cup
         WithSegments({p \o <<"$">> \o seg : p \in prefixes, seg \in Segments}, n - 1)

ReadNamespaces == WithSegments(ReadBases, MaxSeps)

Templates ==
  { <<Origin, "/">> \o PlaceholderLng \o <<"/">> \o PlaceholderNs,
    <<Origin, "/">> \o PlaceholderNs \o <<"?", "k", "=", "0", "&", "x", "=", " ">>,
    <<Origin, "/">> \o PlaceholderNs \o <<"#", "f">>,
    <<Origin>>,
    <<"/">> \o PlaceholderLng \o <<"/">> \o PlaceholderNs,
    <<>> }

FnReturns ==
  { Some(<<Origin, "/", "f", "?", "x", "=", "1">>), Some(<<"/", "f">>), Some(<<>>), None }

LoadPaths ==
  {[kind |-> "string", path |-> t, does |-> "", value |-> None] : t \in Templates}
    \cup {[kind |-> "function", path |-> <<>>, does |-> "return", value |-> v] : v \in FnReturns}
    \cup {[kind |-> "function", path |-> <<>>, does |-> d, value |-> None] : d \in {"throw", "reject"}}
    \cup {[kind |-> "other", path |-> <<>>, does |-> "", value |-> None]}

BackendIdle ==
  /\ pc = "idle"
  /\ req = NoCall
  /\ pending = NoCall
  /\ cbCalls = <<>>
  /\ loadUrlCalls = <<>>
  /\ parentReads = <<>>
  /\ promise = "none"

\* A backend of either version, constructed with some options.
BackendInit ==
  /\ \E version \in BackendVariants, loadPath \in LoadPaths :
       backend = [version |-> version, loadPath |-> loadPath]
  /\ BackendIdle

\* read(lng, ns, callback) with a namespace without "$", "indexOf" version:
\* delegated to super.read with the callback.
ReadDelegate ==
  /\ pc = "idle"
  /\ backend.version = "indexOf"
  /\ \E lng \in Lngs, ns \in ReadNamespaces :
       /\ ~Includes(ns, "$")
       /\ req' = [op |-> "read", lng |-> lng, ns |-> ns, queryPath |-> FALSE,
                  baseNamespace |-> ns, pairs |-> <<>>]
       /\ parentReads' = Append(parentReads, [lng |-> lng, ns |-> ns])
  /\ pc' = "done"
  /\ promise' = "fulfilled"
  /\ UNCHANGED <<backend, pending, cbCalls, loadUrlCalls, codecVars, nsVars, hookVars>>

\* read(lng, ns, callback) on the query path, up to the await: the namespace
\* is split and resolveLoadPath is called inside the try block.
ReadCall ==
  /\ pc = "idle"
  /\ \E lng \in Lngs, ns \in ReadNamespaces :
       LET base == SplitBase(backend.version, ns)
           settled == resolveLoadPath(backend.version, backend.loadPath, lng, base)
       IN /\ backend.version = "indexOf" => Includes(ns, "$")
          /\ req' = [op |-> "read", lng |-> lng, ns |-> ns, queryPath |-> TRUE,
                     baseNamespace |-> base, pairs |-> SplitPairs(backend.version, ns)]
          /\ IF settled.outcome = "throw"
               THEN /\ cbCalls' = cbCalls \o Catch(settled.error)
                    /\ pending' = NoCall
                    /\ pc' = "done"
                    /\ promise' = "fulfilled"
               ELSE /\ cbCalls' = cbCalls
                    /\ pending' = settled
                    /\ pc' = "awaiting"
                    /\ promise' = "pending"
  /\ UNCHANGED <<backend, loadUrlCalls, parentReads, codecVars, nsVars, hookVars>>

\* read resumes after the await; super.loadUrl may throw.
ReadResume ==
  /\ pc = "awaiting"
  /\ \E loadUrlThrows \in BOOLEAN :
       LET rest == AfterAwait(pending, req.pairs, loadUrlThrows)
       IN /\ loadUrlThrows => rest.urls # <<>>
          /\ cbCalls' = cbCalls \o rest.cb
          /\ loadUrlCalls' = loadUrlCalls \o rest.urls
  /\ pc' = "done"
  /\ promise' = "fulfilled"
  /\ UNCHANGED <<backend, req, pending, parentReads, codecVars, nsVars, hookVars>>

BackendNext == ReadDelegate \/ ReadCall \/ ReadResume

-----------------------------------------------------------------------------
(* useLanguageSync, in its two versions: "effect" starts from null and syncs   *)
(* in an effect; "initializer" syncs in the useState initializer and again in  *)
(* an effect. One step is one synchronous piece of the hook or of its          *)
(* environment: a render, an effect, the settling of a changeLanguage promise, *)
(* a change of the cookie, a render with changed options.                     *)

HookVersions == {"effect", "initializer"}
Languages == {"en", "fr"}

\* What getCookieValue returns: null, the empty string, or a language.
CookieValues == {None, Some("")} \cup {Some(l) : l \in Languages}

\* i18nInstance.language: undefined before any language is set.
LanguageValues == {None} \cup {Some(l) : l \in Languages}

\* Identities of the effect's other dependencies.
DepsValues == {1, 2}

\* How a changeLanguage call behaves when it is made: the language is set when
\* the promise settles, or at once (resources already loaded), or it throws.
Modes == {"deferred", "immediate", "throw"}

\* A JavaScript truthy string | null.
Truthy(c) == c.some /\ c.val # ""

\* A condition without the comparison with the instance's language.
ShouldChangeAnyway(cookieLanguage, lang, auto) == Truthy(cookieLanguage) /\ auto

\* cookieLanguage && i18nInstance.language !== cookieLanguage && autoChange
ShouldChange(cookieLanguage, lang, auto) ==
  Truthy(cookieLanguage) /\ lang # cookieLanguage /\ auto

\* i18nInstance.changeLanguage(lng) made by the initializer or the effect;
\* handled: .then and .catch are attached to its promise.
Call(lng, mode, by, handled) ==
  [lng |-> lng, status |-> IF mode = "throw" THEN "threw" ELSE "pending",
   by |-> by, handled |-> handled]

HookIdle ==
  /\ hookVersion = "none"
  /\ autoChange = FALSE
  /\ deps = 0
  /\ cookie = None
  /\ changes = 0
  /\ language = None
  /\ calls = <<>>
  /\ currentLang = None
  /\ returned = None
  /\ hpc = "unmounted"
  /\ onErrorCalls = 0

\* A hook about to be mounted, with some options, cookie and instance language.
HookInit ==
  /\ hookVersion \in HookVersions
  /\ autoChange \in BOOLEAN
  /\ deps = 1
  /\ cookie \in CookieValues
  /\ changes = 0
  /\ language \in LanguageValues
  /\ calls = <<>>
  /\ currentLang = None
  /\ returned = None
  /\ hpc = "unmounted"
  /\ onErrorCalls = 0

\* An effect that leaves the state as it is.
SetFromCookieNever(cookieLanguage, current) == current

\* if (language) setCurrentLang(language): the state after it.
SetFromCookie(cookieLanguage, current) ==
  IF Truthy(cookieLanguage) THEN cookieLanguage ELSE current

\* The first render of the "effect" version: useState(null).
MountEffectVersion ==
  /\ hpc = "unmounted"
  /\ hookVersion = "effect"
  /\ currentLang' = None
  /\ returned' = None
  /\ hpc' = "rendered"
  /\ UNCHANGED <<hookVersion, autoChange, deps, cookie, changes, language, calls,
                 onErrorCalls, codecVars, nsVars, backendVars>>

\* The first render of the "initializer" version: the useState initializer.
MountInitializerVersion ==
  /\ hpc = "unmounted"
  /\ hookVersion = "initializer"
  /\ \E mode \in Modes :
       IF ShouldChange(cookie, language, autoChange)
         THEN /\ calls' = Append(calls, Call(cookie.val, mode, "initializer", FALSE))
              /\ language' = IF mode = "immediate" THEN cookie ELSE language
              /\ currentLang' = IF mode = "throw" THEN language ELSE cookie
              /\ onErrorCalls' = IF mode = "throw" THEN onErrorCalls + 1 ELSE onErrorCalls
         ELSE /\ mode = "deferred"
              /\ currentLang' = language
              /\ UNCHANGED <<calls, language, onErrorCalls>>
  /\ returned' = currentLang'
  /\ hpc' = "rendered"
  /\ UNCHANGED <<hookVersion, autoChange, deps, cookie, changes,
                 codecVars, nsVars, backendVars>>

\* The effect of the "effect" version.
RunEffectEffectVersion ==
  /\ hpc = "rendered"
  /\ hookVersion = "effect"
  /\ currentLang' = SetFromCookie(cookie, currentLang)
  /\ \E mode \in Modes :
       IF ShouldChange(cookie, language, autoChange)
         THEN /\ calls' = Append(calls, Call(cookie.val, mode, "effect", FALSE))
              /\ language' = IF mode = "immediate" THEN cookie ELSE language
              /\ onErrorCalls' = IF mode = "throw" THEN onErrorCalls + 1 ELSE onErrorCalls
         ELSE /\ mode = "deferred"
              /\ UNCHANGED <<calls, language, onErrorCalls>>
  /\ hpc' = "idle"
  /\ UNCHANGED <<hookVersion, autoChange, deps, cookie, changes, returned,
                 codecVars, nsVars, backendVars>>

\* The effect of the "initializer" version.
RunEffectInitializerVersion ==
  /\ hpc = "rendered"
  /\ hookVersion = "initializer"
  /\ \E mode \in Modes :
       IF ShouldChange(cookie, language, autoChange)
         THEN /\ calls' = Append(calls, Call(cookie.val, mode, "effect", TRUE))
              /\ language' = IF mode = "immediate" THEN cookie ELSE language
              /\ onErrorCalls' = IF mode = "throw" THEN onErrorCalls + 1 ELSE onErrorCalls
              /\ currentLang' = currentLang
         ELSE /\ mode = "deferred"
              /\ currentLang' = SetFromCookie(cookie, currentLang)
              /\ UNCHANGED <<calls, language, onErrorCalls>>
  /\ hpc' = "idle"
  /\ UNCHANGED <<hookVersion, autoChange, deps, cookie, changes, returned,
                 codecVars, nsVars, backendVars>>

\* The promise of a changeLanguage call fulfils: the instance has the language,
\* and the .then of the "initializer" version's effect sets the state.
Resolve ==
  /\ \E i \in 1..Len(calls) :
       /\ calls[i].status = "pending"
       /\ calls' = [calls EXCEPT ![i].status = "ok"]
       /\ language' = Some(calls[i].lng)
       /\ currentLang' = IF calls[i].handled THEN Some(calls[i].lng) ELSE currentLang
  /\ UNCHANGED <<hookVersion, autoChange, deps, cookie, changes, returned, hpc,
                 onErrorCalls, codecVars, nsVars, backendVars>>

\* The promise of a changeLanguage call rejects: the .catch of the
\* "initializer" version's effect reports it.
Reject ==
  /\ \E i \in 1..Len(calls) :
       /\ calls[i].status = "pending"
       /\ calls' = [calls EXCEPT ![i].status = "failed"]
       /\ onErrorCalls' = IF calls[i].handled THEN onErrorCalls + 1 ELSE onErrorCalls
  /\ UNCHANGED <<hookVersion, autoChange, deps, cookie, changes, language, currentLang,
                 returned, hpc, codecVars, nsVars, backendVars>>

\* The render React makes after the state changed: the hook returns the state.
RenderAfterSetState ==
  /\ hpc = "idle"
  /\ returned # currentLang
  /\ returned' = currentLang
  /\ UNCHANGED <<hookVersion, autoChange, deps, cookie, changes, language, calls,
                 currentLang, hpc, onErrorCalls, codecVars, nsVars, backendVars>>

\* A render with changed options: a dependency of the effect differs, so the
\* effect runs again.
RenderWithNewOptions ==
  /\ hpc = "idle"
  /\ changes < MaxChanges
  /\ \E a \in BOOLEAN, d \in DepsValues :
       /\ <<a, d>> # <<autoChange, deps>>
       /\ autoChange' = a
       /\ deps' = d
  /\ returned' = currentLang
  /\ changes' = changes + 1
  /\ hpc' = "rendered"
  /\ UNCHANGED <<hookVersion, cookie, language, calls, currentLang, onErrorCalls,
                 codecVars, nsVars, backendVars>>

\* The cookie changes.
CookieChange ==
  /\ changes < MaxChanges
  /\ \E c \in CookieValues :
       /\ c # cookie
       /\ cookie' = c
  /\ changes' = changes + 1
  /\ UNCHANGED <<hookVersion, autoChange, deps, language, calls, currentLang, returned,
                 hpc, onErrorCalls, codecVars, nsVars, backendVars>>

\* The steps of the hook and of the promises it waits for.
HookSteps ==
  \/ MountEffectVersion
  \/ MountInitializerVersion
  \/ RunEffectEffectVersion
  \/ RunEffectInitializerVersion
  \/ Resolve
  \/ Reject
  \/ RenderAfterSetState

HookNext == HookSteps \/ RenderWithNewOptions \/ CookieChange

-----------------------------------------------------------------------------
(* The specifications. *)

NsInit == reg = NoCall /\ lookup = NoCall

NoBackend == backend = NoCall /\ BackendIdle /\ HookIdle

CodecIdle == enc = NoCall /\ dec = NoCall /\ match = NoCall

\* The entry functions and the lookups of the object they return.
Init == CodecIdle /\ RegInit /\ NoBackend
Spec == Init /\ [][NsNext]_vars

\* The utilities as pure functions: encode, split, compare.
InitCodec == CodecInit /\ NsInit /\ NoBackend
SpecCodec == InitCodec /\ [][CodecNext]_vars


\* One read of a backend.
InitBackend == CodecIdle /\ NsInit /\ BackendInit /\ HookIdle
SpecBackend == InitBackend /\ [][BackendNext]_vars

\* One mounted hook, with its environment changing.
InitHook == CodecIdle /\ NsInit /\ backend = NoCall /\ BackendIdle /\ HookInit
SpecHook == InitHook /\ [][HookNext]_vars

\* One mounted hook whose cookie and options stay as they are: React runs the
\* scheduled renders and effects, and every changeLanguage promise settles.
SpecHookLive ==
  /\ InitHook
  /\ [][HookSteps]_vars
  /\ WF_vars(MountEffectVersion \/ MountInitializerVersion)
  /\ WF_vars(RunEffectEffectVersion \/ RunEffectInitializerVersion)
  /\ WF_vars(RenderAfterSetState)
  /\ WF_vars(Resolve \/ Reject)

-----------------------------------------------------------------------------
(* Claims about the utilities as functions (SpecCodec). *)

\* The base name(s) of a descriptor, in order.
BaseNames(d) == IF d.namespace.kind = "array" THEN d.namespace.items ELSE <<d.namespace.str>>

\* The entries of a parameter list or query object, as a set.
Entries(list) == {list[i] : i \in 1..Len(list)}

\* C1: round trip. For a base name without "$" and a non-empty query object,
\* the backend's split of the token gives back the base name, and the parsed
\* remainder has the entries of the query object: the same keys, each once, each
\* with its value.
C1_RoundTrip ==
  (/\ dec.op = "splitNamespace"
   /\ OrEmpty(enc.d.query) # <<>>
   /\ ~Includes(BaseNames(enc.d)[dec.index], "$"))
  => /\ dec.baseNamespace = BaseNames(enc.d)[dec.index]
     /\ Len(dec.pairs) = Len(enc.d.query.val)
     /\ Entries(dec.pairs) = Entries(enc.d.query.val)

\* C1 witness: a two-entry query with a "$" key and "&", "=" values went
\* through the split('$') backend and came back.
C1_Witness ==
  /\ dec.op = "splitNamespace"
  /\ dec.bv = "split"
  /\ enc.d.query = Some(<< <<<<"$">>, <<"&">>>>, <<<<"%">>, <<"=">>>> >>)
  /\ enc.d.namespace = Str(<<"a">>)
  /\ dec.baseNamespace = <<"a">>
  /\ dec.pairs = enc.d.query.val

\* The mappings two optional query objects stand for.
Mapping(oq) == Entries(OrEmpty(oq))

\* C6: isQueryMatch is true exactly when the two queries are the same mapping
\* (an absent query being the empty one), whatever the order of their keys; it
\* gives the same answer with its arguments swapped.
C6_QueryMatchIsMappingEquality ==
  match.op = "isQueryMatch" =>
    /\ match.result = (Mapping(match.query1) = Mapping(match.query2))
    /\ match.result =
         IF match.src = "create"
           THEN isQueryMatch(match.query2, match.query1, match.sameRef)
           ELSE isQueryMatchEvery(match.query2, match.query1, match.sameRef)
    /\ (Mapping(match.query1) # Mapping(match.query2)
        /\ (Mapping(match.query1) \subseteq Mapping(match.query2)
            \/ Mapping(match.query2) \subseteq Mapping(match.query1)))
       => match.result = FALSE

\* C6 witness: two queries with the same two entries in different orders match.
C6_Witness ==
  /\ match.op = "isQueryMatch"
  /\ match.query1 = Some(<< <<<<"k">>, <<"v">>>>, <<<<"j">>, <<"w">>>> >>)
  /\ match.query2 = Some(<< <<<<"j">>, <<"w">>>>, <<<<"k">>, <<"v">>>> >>)
  /\ match.result = TRUE

\* C7 as stated: with an absent or empty query every token is its base name
\* and holds no "$"; a token longer than its base name means a non-empty query.
C7_EmptyQueryNoDollar ==
  enc.op = "processNamespace" =>
    /\ Len(enc.tokens) = Len(BaseNames(enc.d))
    /\ \A i \in 1..Len(enc.tokens) :
         /\ OrEmpty(enc.d.query) = <<>> =>
              enc.tokens[i] = BaseNames(enc.d)[i] /\ ~Includes(enc.tokens[i], "$")
         /\ enc.tokens[i] # BaseNames(enc.d)[i] => OrEmpty(enc.d.query) # <<>>

\* C7 amended: with an absent or empty query every token is its base name, so
\* it holds no "$" when the base name holds none; exactly one "$" is added, right
\* after the base name and before a non-empty query string, when the query is
\* not empty.
C7_EmptyQueryIdentity ==
  enc.op = "processNamespace" =>
    /\ Len(enc.tokens) = Len(BaseNames(enc.d))
    /\ \A i \in 1..Len(enc.tokens) :
         LET base == BaseNames(enc.d)[i]
             token == enc.tokens[i]
         IN /\ OrEmpty(enc.d.query) = <<>> =>
                 /\ token = base
                 /\ ~Includes(base, "$") => ~Includes(token, "$")
            /\ OrEmpty(enc.d.query) # <<>> =>
                 /\ StartsWith(token, base \o <<"$">>)
                 /\ Len(token) > Len(base) + 1
                 /\ Count(token, "$") = Count(base, "$") + 1

\* C7 witness: an array of two base names with no query gave the two names.
C7_Witness ==
  /\ enc.op = "processNamespace"
  /\ enc.d.query = None
  /\ enc.d.namespace.kind = "array"
  /\ enc.d.namespace.items = <<<<"a">>, <<>>>>
  /\ enc.tokens = <<<<"a">>, <<>>>>

-----------------------------------------------------------------------------
(* Claims about the entry functions and their lookups (Spec). *)

\* The descriptors handed in, as a sequence.
Given == IF reg.input.isArray THEN reg.input.value ELSE <<Single(reg.input)>>

\* The object was built from a descriptor sequence (createNsWithQuery makes one
\* of a single descriptor).
FromSequence == Built /\ ~reg.noop

\* The token(s) a descriptor encodes to, and their "|"-joined form.
TokensOf(d) ==
  IF reg.op = "createNsWithQuery" THEN processNamespace(d) ELSE <<processNamespaceStr(d)>>
Joined(d) == Join(TokensOf(d), <<"|">>)

\* The registration key as documented: the id when one is given, otherwise the
\* decimal string of the zero-based position (pos is one-based here).
GivenKey(d, pos) == IF d.id.some THEN d.id.val ELSE DecStr(pos - 1)

\* The same, an empty id counting as none.
NonEmptyKey(d, pos) == IF d.id.some /\ d.id.val # <<>> THEN d.id.val ELSE DecStr(pos - 1)

RECURSIVE SumTokens(_)
SumTokens(ds) == IF ds = <<>> THEN 0 ELSE Len(TokensOf(Head(ds))) + SumTokens(Tail(ds))

\* C2: ns is the concatenation of the descriptors' token lists, in descriptor
\* order, and its length is the sum of their lengths.
C2_NsIsConcatenation ==
  FromSequence =>
    /\ reg.ns.tokens = Flat([i \in 1..Len(Given) |-> TokensOf(Given[i])])
    /\ Len(reg.ns.tokens) = SumTokens(Given)

\* C3 as stated: for every position i whose descriptor has no id,
\* getNsById of the decimal string of i returns that descriptor's joined tokens.
C3_IndexFallbackAlways ==
  (FromSequence /\ lookup.op = "getNsById") =>
    \A i \in 1..Len(Given) :
      (~Given[i].id.some /\ lookup.id = DecStr(i - 1))
        => lookup.result = Some(Joined(Given[i]))

\* C3 amended: for every position i whose descriptor has no id, and whose
\* decimal string is not the explicit id of a later descriptor, getNsById of the
\* decimal string of i returns that descriptor's tokens joined with "|".
C3_IndexFallback ==
  (FromSequence /\ lookup.op = "getNsById") =>
    \A i \in 1..Len(Given) :
      (/\ ~Given[i].id.some
       /\ lookup.id = DecStr(i - 1)
       /\ \A j \in (i + 1)..Len(Given) :
            ~(Given[j].id.some /\ Given[j].id.val = DecStr(i - 1)))
        => lookup.result = Some(Joined(Given[i]))

\* C3 witness: [{namespace: ["a","b"], query: {k: "v"}}] and getNsById("0")
\* = "a$k=v|b$k=v".
C3_Witness ==
  /\ reg.op = "createNsWithQuery"
  /\ reg.input.isArray
  /\ Given = <<[id |-> None, namespace |-> Arr(1, <<NsA, NsB>>),
                query |-> Some(<<<<QK, QV>>>>)]>>
  /\ lookup.op = "getNsById"
  /\ lookup.id = <<"0">>
  /\ lookup.result = Some(<<"a", "$", "k", "=", "v", "|", "b", "$", "k", "=", "v">>)

\* C4 as stated: a descriptor at position i with an explicit id x answers
\* getNsById(x) with its tokens, and getNsById of the decimal string of i is
\* undefined when no other descriptor is registered under that key.
C4_IdPrecedenceAlways ==
  (FromSequence /\ lookup.op = "getNsById") =>
    \A i \in 1..Len(Given) :
      Given[i].id.some =>
        /\ lookup.id = Given[i].id.val => lookup.result = Some(Joined(Given[i]))
        /\ (/\ lookup.id = DecStr(i - 1)
            /\ \A j \in 1..Len(Given) : j # i => GivenKey(Given[j], j) # DecStr(i - 1))
           => lookup.result = None

\* C4 amended: a descriptor at position i with a non-empty explicit id x
\* answers getNsById(x) with its tokens when no later descriptor is registered
\* under x; when x is not itself the decimal string of i, getNsById of that
\* decimal string is undefined when no other descriptor is registered under
\* it. An empty id counts as no id: the descriptor is registered under its
\* position.
C4_IdPrecedence ==
  (FromSequence /\ lookup.op = "getNsById") =>
    \A i \in 1..Len(Given) :
      LET later(key) == \E j \in (i + 1)..Len(Given) : NonEmptyKey(Given[j], j) = key
          other(key) == \E j \in 1..Len(Given) : j # i /\ NonEmptyKey(Given[j], j) = key
      IN /\ (Given[i].id.some /\ Given[i].id.val # <<>>) =>
              /\ (lookup.id = Given[i].id.val /\ ~later(Given[i].id.val))
                   => lookup.result = Some(Joined(Given[i]))
              /\ (/\ lookup.id = DecStr(i - 1)
                  /\ Given[i].id.val # DecStr(i - 1)
                  /\ ~other(DecStr(i - 1)))
                   => lookup.result = None
         /\ (Given[i].id = Some(<<>>) /\ lookup.id = DecStr(i - 1) /\ ~later(DecStr(i - 1)))
              => lookup.result = Some(Joined(Given[i]))

\* C4 witness: [{id: "x", namespace: "a", query: {k: "v"}}]: getNsById("0")
\* is undefined.
C4_Witness ==
  /\ FromSequence
  /\ Given = <<[id |-> Some(<<"x">>), namespace |-> Str(NsA),
                query |-> Some(<<<<QK, QV>>>>)]>>
  /\ lookup.op = "getNsById"
  /\ lookup.id = <<"0">>
  /\ lookup.result = None

\* The positions whose descriptor has the searched namespace (===) and a query
\* that is the same mapping as the searched one.
Matching(search) ==
  {i \in 1..Len(Given) :
     /\ StrictEq(Given[i].namespace, search.namespace)
     /\ Mapping(Given[i].query) = Mapping(search.query)}

\* C5: getNs returns the joined tokens of the first descriptor, in order, whose
\* namespace is strictly equal to the searched one and whose query is the same
\* mapping as the searched one, and undefined when there is none.
C5_GetNsFirstMatch ==
  (FromSequence /\ lookup.op = "getNs") =>
    IF Matching(lookup.search) = {}
      THEN lookup.result = None
      ELSE lookup.result =
             Some(Joined(Given[CHOOSE i \in Matching(lookup.search) :
                                 \A j \in Matching(lookup.search) : i <= j]))

\* C5 witness: two descriptors match the search and encode differently (their
\* keys are in different orders); the first one's token came back.
C5_Witness ==
  /\ FromSequence
  /\ lookup.op = "getNs"
  /\ Matching(lookup.search) = {1, 2}
  /\ Joined(Given[1]) # Joined(Given[2])
  /\ lookup.result = Some(Joined(Given[1]))

\* The object the entry function returns for the one-element array [d].
OfOneElementArray ==
  IF reg.op = "createNsWithQuery"
    THEN createNsWithQuery([isArray |-> TRUE, value |-> <<Single(reg.input)>>])
    ELSE processNamespaces([isArray |-> TRUE, value |-> <<Single(reg.input)>>])

\* C8 as stated: an entry function called with a single descriptor d gives the
\* ns and the lookup results it gives for [d].
C8_SingleAsArrayAlways ==
  (Built /\ ~reg.input.isArray) =>
    /\ reg.ns = OfOneElementArray.ns
    /\ lookup.op = "getNsById" => lookup.result = getNsById(OfOneElementArray, lookup.id)
    /\ lookup.op = "getNs" => lookup.result = getNs(OfOneElementArray, lookup.search)

\* C8 amended: createNsWithQuery called with a single descriptor d gives what
\* it gives for [d]: ns is d's token list, getNsById of d's key and a getNs
\* that matches d return d's joined tokens. processNamespaces called with a
\* single descriptor returns the bare token string as ns, and lookups that
\* always return undefined.
C8_SingleAsArray ==
  (Built /\ ~reg.input.isArray) =>
    LET d == Single(reg.input)
    IN IF reg.op = "createNsWithQuery"
         THEN /\ reg.ns = OfOneElementArray.ns
              /\ reg.ns = [kind |-> "array", tokens |-> processNamespace(d)]
              /\ lookup.op = "getNsById" =>
                   /\ lookup.result = getNsById(OfOneElementArray, lookup.id)
                   /\ lookup.id = NonEmptyKey(d, 1) => lookup.result = Some(Joined(d))
              /\ lookup.op = "getNs" =>
                   /\ lookup.result = getNs(OfOneElementArray, lookup.search)
                   /\ Matching(lookup.search) # {} => lookup.result = Some(Joined(d))
         ELSE /\ reg.ns = [kind |-> "string", tokens |-> <<processNamespaceStr(d)>>]
              /\ lookup.op \in {"getNsById", "getNs"} => lookup.result = None

\* C8 witness: createNsWithQuery({namespace: ["a","b"], query: {k: "v"}}) and
\* getNsById("0").
C8_Witness ==
  /\ reg.op = "createNsWithQuery"
  /\ ~reg.input.isArray
  /\ Single(reg.input) = [id |-> None, namespace |-> Arr(1, <<NsA, NsB>>),
                          query |-> Some(<<<<QK, QV>>>>)]
  /\ reg.ns.tokens = <<<<"a", "$", "k", "=", "v">>, <<"b", "$", "k", "=", "v">>>>
  /\ lookup.op = "getNsById"
  /\ lookup.id = <<"0">>
  /\ lookup.result = Some(<<"a", "$", "k", "=", "v", "|", "b", "$", "k", "=", "v">>)

\* The positions of the descriptors registered under key k, with the key as
\* documented and with an empty id counting as none.
GivenKeyed(k) == {i \in 1..Len(Given) : GivenKey(Given[i], i) = k}
NonEmptyKeyed(k) == {i \in 1..Len(Given) : NonEmptyKey(Given[i], i) = k}

Last(S) == CHOOSE i \in S : \A j \in S : j <= i

\* C12 as stated: getNsById(k) returns the joined token(s) of the last descriptor
\* whose key (its id when one is given, otherwise the decimal string of its
\* position) is k, and undefined when no descriptor has that key.
C12_LastWriteWinsGivenId ==
  (FromSequence /\ lookup.op = "getNsById") =>
    IF GivenKeyed(lookup.id) = {}
      THEN lookup.result = None
      ELSE lookup.result = Some(Joined(Given[Last(GivenKeyed(lookup.id))]))

\* C12: getNsById(k) returns the joined token(s) of the last descriptor whose key
\* (its id when a non-empty one is given, otherwise the decimal string of its
\* position) is k, and undefined when no descriptor has that key.
C12_LastWriteWins ==
  (FromSequence /\ lookup.op = "getNsById") =>
    IF NonEmptyKeyed(lookup.id) = {}
      THEN lookup.result = None
      ELSE lookup.result = Some(Joined(Given[Last(NonEmptyKeyed(lookup.id))]))

\* C12 witness: the explicit id of the second descriptor is the position of the
\* first, the two encode differently, and the lookup gave the second's token.
C12_Witness ==
  /\ FromSequence
  /\ lookup.op = "getNsById"
  /\ Len(Given) = 2
  /\ ~Given[1].id.some
  /\ Given[2].id = Some(<<"0">>)
  /\ lookup.id = <<"0">>
  /\ Joined(Given[1]) # Joined(Given[2])
  /\ lookup.result = Some(Joined(Given[2]))

\* The strings of the returned ns.
NsTokens == {reg.ns.tokens[i] : i \in 1..Len(reg.ns.tokens)}

\* The "|"-separated pieces of a lookup result.
Pieces(result) == {SplitOn(result, "|")[i] : i \in 1..Len(SplitOn(result, "|"))}

\* C14: every result of getNsById or getNs that is not undefined, split on "|",
\* consists only of strings that occur in the returned ns.
C14_LookupResultsAreTokens ==
  (Built /\ lookup.op \in {"getNsById", "getNs"} /\ lookup.result.some) =>
    Pieces(lookup.result.val) \subseteq NsTokens

-----------------------------------------------------------------------------
(* Claims about the backend's read (SpecBackend). *)

\* A read that took the query-parameter path and has finished.
QueryRead(state) == pc = state /\ req.queryPath

\* The string loadPath with the base name and the language substituted.
Substituted(path, base, lng) ==
  ReplaceFirst(ReplaceFirst(path, PlaceholderNs, base), PlaceholderLng, lng)

\* C9: for every namespace with at least one "$" handed to read, the base name
\* is the text before the first "$" and the query string is the whole remainder
\* after it; with a string loadPath the URL handed to loadUrl is the loadPath
\* with the base name and the language substituted, keeps the parameters the
\* resolved loadPath already has and appends the pairs of the token's query
\* string after them, in order, none overwritten or dropped.
C9_FirstDollarSplit ==
  (QueryRead("done") /\ Includes(req.ns, "$")) =>
    LET first == IndexOf(req.ns, "$")
        base == Before(req.ns, first)
        remainder == After(req.ns, first)
        resolved == Substituted(backend.loadPath.path, base, req.lng)
    IN /\ req.baseNamespace = base
       /\ req.pairs = URLSearchParamsOfString(remainder)
       /\ (backend.loadPath.kind = "string" /\ loadUrlCalls # <<>>) =>
            /\ Len(loadUrlCalls) = 1
            /\ URLValid(loadUrlCalls[1])
            /\ ParseURL(loadUrlCalls[1]).path = ParseURL(resolved).path
            /\ SearchParams(ParseURL(loadUrlCalls[1]))
                 = SearchParams(ParseURL(resolved)) \o URLSearchParamsOfString(remainder)

\* options.loadPath is neither a string nor a function, or resolves to an empty
\* path, or to a path that cannot be parsed as a URL.
InvalidConfiguration ==
  \/ backend.loadPath.kind = "other"
  \/ /\ backend.loadPath.kind = "string"
     /\ ~URLValid(Substituted(backend.loadPath.path, req.baseNamespace, req.lng))
  \/ /\ backend.loadPath.kind = "function"
     /\ backend.loadPath.does = "return"
     /\ (backend.loadPath.value.some => ~URLValid(backend.loadPath.value.val))

\* C10: when read takes the query-parameter path under an invalid configuration,
\* it never calls loadUrl and its promise never rejects, and once it has finished
\* it has invoked the callback exactly once, with an Error and false.
C10_InvalidConfigurationToCallback ==
  /\ ((QueryRead("awaiting") \/ QueryRead("done")) /\ InvalidConfiguration) =>
       /\ loadUrlCalls = <<>>
       /\ promise # "rejected"
       /\ Len(cbCalls) <= 1
  /\ (QueryRead("done") /\ InvalidConfiguration) =>
       /\ Len(cbCalls) = 1
       /\ cbCalls[1].err # ""
       /\ cbCalls[1].data = FALSE
       /\ promise = "fulfilled"

\* A finished read of "a$k=v" on a backend whose loadPath is of no known type:
\* the callback got the rejection of resolveLoadPath.
C10_Witness ==
  /\ QueryRead("done")
  /\ backend.loadPath.kind = "other"
  /\ backend.version = "indexOf"
  /\ req.ns = <<"a", "$", "k", "=", "v">>
  /\ cbCalls = <<[err |-> ErrNoValidLoadPath, data |-> FALSE]>>
  /\ loadUrlCalls = <<>>

\* The hand-offs of the completion callback in one read: passed to loadUrl,
\* passed to the parent read, invoked by read itself.
HandOffs == Len(loadUrlCalls) + Len(parentReads) + Len(cbCalls)

\* C15: a finished read has handed the callback off exactly once: to loadUrl
\* with the constructed URL, to the parent read, or by invoking it itself with
\* an error; never both to loadUrl and to its own error path, even when
\* loadUrl throws.
C15_CallbackHandedOffOnce ==
  /\ pc = "done" => HandOffs = 1
  /\ pc = "awaiting" => HandOffs = 0
  /\ \A i \in 1..Len(cbCalls) : cbCalls[i].err # "" /\ cbCalls[i].data = FALSE

-----------------------------------------------------------------------------
(* Claims about useLanguageSync (SpecHook, SpecHookLive). *)

\* Some changeLanguage call of the hook has succeeded.
SomeCallSucceeded == \E i \in 1..Len(calls) : calls[i].status = "ok"

\* C11: if the cookie getter returns a non-empty language that stays unchanged,
\* autoChange is true and a changeLanguage call eventually succeeds, then
\* eventually the instance's language is the cookie's and the hook returns it.
C11_CookieCopiedToLanguage ==
  (Truthy(cookie) /\ autoChange) =>
    (<>SomeCallSucceeded => <>(language = cookie /\ returned = cookie))

\* C11 witness: the "initializer" version mounted with language en and cookie
\* fr; a call has succeeded, the language is fr and the hook returns fr.
C11_Witness ==
  /\ hookVersion = "initializer"
  /\ autoChange
  /\ cookie = Some("fr")
  /\ Len(calls) = 2
  /\ calls[1].status = "failed"
  /\ calls[2].status = "ok"
  /\ language = cookie
  /\ returned = cookie

\* C13: every changeLanguage call is made with the value the cookie getter
\* returns at that moment, and only when autoChange is true, that value is
\* non-empty and the instance's language differs from it at that moment; no step
\* makes a call otherwise.
C13_ChangeLanguageOnlyWhenNeeded ==
  [][Len(calls') # Len(calls) =>
       /\ Len(calls') = Len(calls) + 1
       /\ SubSeq(calls', 1, Len(calls)) = calls
       /\ Truthy(cookie)
       /\ calls'[Len(calls')].lng = cookie.val
       /\ autoChange
       /\ language # cookie]_vars

\* C13 witness: after the cookie changed from en to fr, the effect ran again
\* (an option changed) and called changeLanguage with fr.
C13_Witness ==
  /\ Len(calls) = 2
  /\ calls[1].lng = "en"
  /\ calls[2].lng = "fr"
  /\ calls[2].by = "effect"
  /\ calls[2].status = "pending"
  /\ cookie = Some("fr")
  /\ autoChange

\* The changeLanguage calls still pending.
Pending == {i \in 1..Len(calls) : calls[i].status = "pending"}

\* C16: while the cookie and the options are as they were at the mount, the hook
\* never has two changeLanguage calls pending: it starts no second call while
\* an earlier one is still pending.
C16_OneChangeLanguageCall ==
  changes = 0 => Cardinality(Pending) <= 1

====
